---- MODULE Spec2Model ----
(***************************************************************************)
(* Sysadmin-Copilot: the command safety gate (src/tools/evaluator.py), the *)
(* remote executor it forwards to (src/tools/aws.py), and the tool-calling *)
(* decision loop with its chat front end (src/agent/agent.py,              *)
(* src/ui/gradio_chat_interface.py).                                       *)
(*                                                                         *)
(* Two specifications share the module:                                    *)
(*   SpecGate   one call of evaluate_and_execute after another, each with  *)
(*              the SSM send / poll / fetch sequence it may trigger;       *)
(*   SpecAgent  the application: main, user turns, decision-loop steps,    *)
(*              and session resets.                                        *)
(***************************************************************************)
EXTENDS Integers, Sequences, FiniteSets, TLC

VARIABLES
    \* ---- safety gate and remote executor --------------------------------
    gate_pc,        \* position of the evaluate_and_execute call
    command,        \* its argument, a sequence of characters
    gate_result,    \* what evaluate_and_execute returned
    ssm_pc,         \* position inside SSMClient.execute_command
    ssm_command,    \* the argument execute_command was called with
    ssm_calls,      \* execute_command invocations made by the current gate call
    sends,          \* client.send_command calls of the current execute_command
    polls,          \* status polls (loop iterations) of the current execute_command
    fetches,        \* output fetches after the loop
    status,         \* the status the last poll returned
    ssm_result,     \* what execute_command returned
    \* ---- agent, decision loop and chat interface ------------------------
    app_pc,         \* "load" before main() has run, "serving" afterwards
    model_with_tool,\* agent.py global: the bound model object (0 is None)
    tools_by_name,  \* agent.py global: the registry, tool name -> tool
    agent,          \* chat interface closure: the compiled agent in use
    thread_id,      \* chat interface closure: the session identifier in use
    chat_history,   \* chat interface closure: this session's completed turns
    saved_logs,     \* chat_logs/ files written so far
    checkpoints,    \* MemorySaver contents: session -> conversation
    pc,             \* position of the decision-loop run
    run_agent,      \* the agent the run in progress was invoked on
    run_thread,     \* the thread_id the run in progress was invoked with
    run_message,    \* the user message of the run in progress
    step,           \* super-steps the run in progress has executed
    llm_input,      \* the messages the last llm_call handed to the model
    tool_log,       \* tool.invoke calls made by the run in progress
    outcome,        \* how the last user turn ended for the caller
    reply,          \* the reply the last user turn returned
    llm_calls,      \* model invocations made by the run in progress
    next_id,        \* next fresh tool-call identifier
    turns,          \* user turns submitted so far
    agents_made,    \* create_agent calls so far
    transcript      \* history: what has been said in the session on screen

gate_vars == <<gate_pc, command, gate_result, ssm_pc, ssm_command, ssm_calls,
               sends, polls, fetches, status, ssm_result>>

agent_vars == <<app_pc, model_with_tool, tools_by_name, agent, thread_id,
                chat_history, saved_logs, checkpoints, pc, run_agent, run_thread,
                run_message, step, llm_input, tool_log, outcome, reply,
                llm_calls, next_id, turns, agents_made, transcript>>

vars == <<gate_vars, agent_vars>>

----------------------------------------------------------------------------
(* Bounds of the model.                                                    *)

\* longest command, counted in atoms (a keyword or a single character)
MaxAtoms == 3

\* tool rounds a run may complete before the graph runs out of steps
MaxRounds == 1

\* tool-call requests the decision-maker makes in one behaviour
MaxToolCalls == 3

\* user turns submitted in one behaviour
MaxTurns == 2

\* agents created in one behaviour: the one of main() and those of resets
MaxSessions == 2

----------------------------------------------------------------------------
(* Commands: strings as sequences of one-character strings.                *)

Wget == <<"w", "g", "e", "t">>
Curl == <<"c", "u", "r", "l">>
Unset == <<"u", "n", "s", "e", "t">>

\* the pieces commands are built from: the three keywords, an underscore
\* (a word character) and a blank (not a word character)
Atoms == {Wget, Curl, Unset, <<"_">>, <<" ">>}

RECURSIVE Flatten(_)
Flatten(atoms) ==
    IF atoms = <<>> THEN <<>> ELSE Head(atoms) \o Flatten(Tail(atoms))

AtomSeqs == UNION {[1..n -> Atoms] : n \in 0..MaxAtoms}

Commands == {Flatten(a) : a \in AtomSeqs}

\* \w of Python's re on str: letters, digits and the underscore
IsWordChar(c) ==
    c \in {"w", "g", "e", "t", "c", "u", "r", "l", "n", "s", "_"}

\* a search that drops the trailing \b: a substring test to the right
re_search_prefix(pattern, s) ==
    \E i \in 0..Len(s) :
        /\ i + Len(pattern.word) <= Len(s)
        /\ \A k \in 1..Len(pattern.word) : s[i + k] = pattern.word[k]
        /\ (i >= 1 /\ IsWordChar(s[i])) # (i < Len(s) /\ IsWordChar(s[i + 1]))

\* \b at offset i (0..Len(s)) of s: exactly one side is a word character
BoundaryAt(s, i) ==
    LET before == i >= 1 /\ IsWordChar(s[i])
        after == i < Len(s) /\ IsWordChar(s[i + 1])
    IN before # after

\* the literal `word` occupies s[i+1 .. i+Len(word)]
LiteralAt(s, i, word) ==
    /\ i + Len(word) <= Len(s)
    /\ \A k \in 1..Len(word) : s[i + k] = word[k]

\* re.search(r'\b<word>\b', s)
re_search(pattern, s) ==
    \E i \in 0..Len(s) :
        /\ BoundaryAt(s, i)
        /\ LiteralAt(s, i, pattern.word)
        /\ BoundaryAt(s, i + Len(pattern.word))

\* CommandEvaluator.unsafe_patterns, in list order
unsafe_patterns ==
    << [src |-> "\\bwget\\b", word |-> Wget],
       [src |-> "\\bcurl\\b", word |-> Curl],
       [src |-> "\\bunset\\b", word |-> Unset] >>

----------------------------------------------------------------------------
(* Results: every result is a record of the same shape.  `error` is ""     *)
(* for the invocation output execute_command returns on success.           *)

NoResult == [error |-> "none", detail |-> "", Status |-> "", StandardOutputContent |-> ""]

Blocked(pattern) ==
    [error |-> "Command blocked: Unsafe pattern detected. Modify your command.",
     detail |-> pattern.src, Status |-> "", StandardOutputContent |-> ""]

TimedOut ==
    [error |-> "Command timed out after 30 seconds",
     detail |-> "", Status |-> "", StandardOutputContent |-> ""]

SSMError(e) ==
    [error |-> "SSM Execution Error", detail |-> e, Status |-> "",
     StandardOutputContent |-> ""]

Output(s, out) ==
    [error |-> "", detail |-> "", Status |-> s, StandardOutputContent |-> out]

\* a loop that keeps going after a match and so reports the last one
RECURSIVE last_match(_, _)
last_match(patterns, cmd) ==
    IF patterns = <<>> THEN NoResult
    ELSE LET rest == last_match(Tail(patterns), cmd) IN
         IF rest # NoResult THEN rest
         ELSE IF re_search(Head(patterns), cmd)
              THEN Blocked(Head(patterns))
              ELSE NoResult

\* the for-loop of evaluate_and_execute: the refusal for the first pattern
\* of the list that matches, or NoResult when the loop falls through
RECURSIVE first_match(_, _)
first_match(patterns, cmd) ==
    IF patterns = <<>> THEN NoResult
    ELSE IF re_search(Head(patterns), cmd) THEN Blocked(Head(patterns))
    ELSE first_match(Tail(patterns), cmd)

----------------------------------------------------------------------------
(* The remote executor, SSMClient.execute_command.                         *)

max_attempts == 30

TerminalStatuses ==
    {"Success", "Failed", "Cancelled", "Delivery Timed Out",
     "Execution Timed Out", "Undelivered", "Terminated"}

\* what get_command_invocation may report while the command is under way
PendingStatuses == {"Pending", "InProgress"}

Statuses == TerminalStatuses \cup PendingStatuses

\* exceptions the boto3 client raises
Exceptions == {"ClientError"}

Outputs == {"", "uid=0(root)"}

\* evaluate_and_execute(cmd) up to its return or its call of execute_command
evaluate_and_execute ==
    /\ gate_pc = "idle"
    /\ \E cmd \in Commands :
        LET refusal == first_match(unsafe_patterns, cmd) IN
        /\ command' = cmd
        /\ sends' = 0
        /\ polls' = 0
        /\ fetches' = 0
        /\ status' = ""
        /\ ssm_result' = NoResult
        /\ IF refusal # NoResult
           THEN /\ gate_result' = refusal
                /\ gate_pc' = "returned"
                /\ ssm_calls' = 0
                /\ UNCHANGED <<ssm_pc, ssm_command>>
           ELSE /\ gate_result' = NoResult
                /\ gate_pc' = "executing"
                /\ ssm_calls' = 1
                /\ ssm_command' = cmd
                /\ ssm_pc' = "send"
    /\ UNCHANGED agent_vars

\* client.send_command: a command id, or an exception caught at the bottom
send_command ==
    /\ ssm_pc = "send"
    /\ sends' = sends + 1
    /\ \/ /\ ssm_pc' = "poll"
          /\ UNCHANGED ssm_result
       \/ \E e \in Exceptions :
          /\ ssm_result' = SSMError(e)
          /\ ssm_pc' = "returned"
    /\ UNCHANGED <<gate_pc, command, gate_result, ssm_command, ssm_calls,
                   polls, fetches, status>>
    /\ UNCHANGED agent_vars

\* a polling loop that gives up on its last attempt before looking at the
\* status: a command that finishes on attempt max_attempts times out
poll_status_last_times_out ==
    /\ ssm_pc = "poll"
    /\ polls' = polls + 1
    /\ \/ \E s \in Statuses :
          /\ status' = s
          /\ IF polls + 1 = max_attempts
             THEN /\ ssm_result' = TimedOut
                  /\ ssm_pc' = "returned"
             ELSE IF s \in TerminalStatuses
             THEN /\ ssm_pc' = "fetch"
                  /\ UNCHANGED ssm_result
             ELSE UNCHANGED <<ssm_pc, ssm_result>>
       \/ \E e \in Exceptions :
          /\ ssm_result' = SSMError(e)
          /\ ssm_pc' = "returned"
          /\ UNCHANGED status
    /\ UNCHANGED <<gate_pc, command, gate_result, ssm_command, ssm_calls,
                   sends, fetches>>
    /\ UNCHANGED agent_vars

\* the polling loop without its else branch: an exhausted loop falls
\* through to the output fetch
poll_status_no_else ==
    /\ ssm_pc = "poll"
    /\ polls' = polls + 1
    /\ \/ \E s \in Statuses :
          /\ status' = s
          /\ IF s \in TerminalStatuses \/ polls + 1 = max_attempts
             THEN /\ ssm_pc' = "fetch"
                  /\ UNCHANGED ssm_result
             ELSE UNCHANGED <<ssm_pc, ssm_result>>
       \/ \E e \in Exceptions :
          /\ ssm_result' = SSMError(e)
          /\ ssm_pc' = "returned"
          /\ UNCHANGED status
    /\ UNCHANGED <<gate_pc, command, gate_result, ssm_command, ssm_calls,
                   sends, fetches>>
    /\ UNCHANGED agent_vars

\* one iteration of the polling loop, with the loop's else branch
poll_status ==
    /\ ssm_pc = "poll"
    /\ polls' = polls + 1
    /\ \/ \E s \in Statuses :
          /\ status' = s
          /\ IF s \in TerminalStatuses
             THEN /\ ssm_pc' = "fetch"
                  /\ UNCHANGED ssm_result
             ELSE IF polls + 1 = max_attempts
             THEN /\ ssm_result' = TimedOut
                  /\ ssm_pc' = "returned"
             ELSE UNCHANGED <<ssm_pc, ssm_result>>
       \/ \E e \in Exceptions :
          /\ ssm_result' = SSMError(e)
          /\ ssm_pc' = "returned"
          /\ UNCHANGED status
    /\ UNCHANGED <<gate_pc, command, gate_result, ssm_command, ssm_calls,
                   sends, fetches>>
    /\ UNCHANGED agent_vars

\* the get_command_invocation after the loop, whose response is returned;
\* a terminal status is final, so the response carries the status polled
fetch_output ==
    /\ ssm_pc = "fetch"
    /\ fetches' = fetches + 1
    /\ \/ \E out \in Outputs :
          ssm_result' = Output(status, out)
       \/ \E e \in Exceptions :
          ssm_result' = SSMError(e)
    /\ ssm_pc' = "returned"
    /\ UNCHANGED <<gate_pc, command, gate_result, ssm_command, ssm_calls,
                   sends, polls, status>>
    /\ UNCHANGED agent_vars

\* `return ssm_client.execute_command(command)`
gate_return ==
    /\ gate_pc = "executing"
    /\ ssm_pc = "returned"
    /\ gate_result' = ssm_result
    /\ gate_pc' = "returned"
    /\ ssm_pc' = "idle"
    /\ UNCHANGED <<command, ssm_command, ssm_calls, sends, polls, fetches,
                   status, ssm_result>>
    /\ UNCHANGED agent_vars

\* the caller takes the result and the call's locals go out of scope; the
\* gate is ready for the next command
next_command ==
    /\ gate_pc = "returned"
    /\ gate_pc' = "idle"
    /\ command' = <<>>
    /\ gate_result' = NoResult
    /\ ssm_command' = <<>>
    /\ ssm_calls' = 0
    /\ sends' = 0
    /\ polls' = 0
    /\ fetches' = 0
    /\ status' = ""
    /\ ssm_result' = NoResult
    /\ UNCHANGED ssm_pc
    /\ UNCHANGED agent_vars

GateNext ==
    \/ evaluate_and_execute
    \/ send_command
    \/ poll_status
    \/ fetch_output
    \/ gate_return
    \/ next_command

----------------------------------------------------------------------------
(* Messages of a conversation: records of one shape.  A content is a       *)
(* sequence of text pieces.                                                *)

HumanMessage(text) ==
    [role |-> "human", content |-> <<text>>, tool_calls |-> <<>>, tool_call_id |-> 0]

AIMessage(content, calls) ==
    [role |-> "ai", content |-> content, tool_calls |-> calls, tool_call_id |-> 0]

ToolMessage(content, id) ==
    [role |-> "tool", content |-> content, tool_calls |-> <<>>, tool_call_id |-> id]

Last(seq) == seq[Len(seq)]

----------------------------------------------------------------------------
(* create_agent and the graph it compiles.                                 *)

\* tools = [evaluator, email, get_today_date]; {tool.name: tool for tool in tools}
Registry ==
    [name \in {"evaluator", "email", "get_today_date"} |-> name]

\* a create_agent that registers one tool fewer from the second call on
create_agent_shrinking(n) ==
    [agent |-> n + 1, thread_id |-> n + 1, model_with_tool |-> n + 1,
     tools_by_name |-> IF n = 0 THEN Registry
                       ELSE [name \in {"evaluator", "get_today_date"} |-> name]]

\* create_agent(), the n+1st call: the globals it assigns and the pair it
\* returns.  The bound model, the MemorySaver with the compiled agent and
\* the uuid4 thread id are new objects, numbered by the call.
create_agent(n) ==
    [agent |-> n + 1, thread_id |-> n + 1, model_with_tool |-> n + 1,
     tools_by_name |-> Registry]

\* a reset that hands back the agent and thread id of the first call
reset_agent_same_session(n) ==
    [agent |-> 1, thread_id |-> 1, model_with_tool |-> n + 1,
     tools_by_name |-> Registry]

reset_agent(n) == create_agent(n)

\* a router that always continues to the tool node
should_continue_always(messages) == "environment"

\* should_continue: the conditional edge out of llm_call
should_continue(messages) ==
    IF Last(messages).tool_calls # <<>> THEN "environment" ELSE "END"

\* agent.invoke is called with the default configuration: the graph stops
\* with GraphRecursionError once recursion_limit super-steps have run and a
\* node is still due.  The default, 25, is 2 * 12 + 1: twelve tool rounds
\* and thirteen decisions; the model keeps that shape with MaxRounds rounds.
recursion_limit == 2 * MaxRounds + 1

\* where the run stands after a node that ran as super-step `done_steps`
\* and whose outgoing edge leads to `node`
next_node(done_steps, node) ==
    IF node = "END" THEN "END"
    ELSE IF done_steps >= recursion_limit THEN "out_of_steps"
    ELSE node

\* the conversation the checkpointer of agent a holds under thread id t
Conversation(cp, a, t) ==
    IF a \in DOMAIN cp /\ t \in DOMAIN cp[a] THEN cp[a][t] ELSE <<>>

\* the checkpoint written after a super-step
Checkpoint(cp, a, t, messages) ==
    [cp EXCEPT ![a] = (t :> messages) @@ @]

----------------------------------------------------------------------------
(* tool_node.                                                              *)

\* tool names the decision-maker asks for; "X" is not registered
RequestNames == {"evaluator", "X"}

\* the text of a response that requests no tool
TextReplies == {<<"Done.">>}

\* a lookup that falls back to the evaluator tool
lookup_default(registry, name) ==
    IF name \in DOMAIN registry THEN registry[name] ELSE registry["evaluator"]

\* tools_by_name.get(name)
lookup(registry, name) ==
    IF name \in DOMAIN registry THEN registry[name] ELSE "None"

NotFound(name) == <<"Tool execution failed: ", "Tool '", name, "' not found">>

Failed(e) == <<"Tool execution failed: ", e>>

Observation(tool) == <<"observation of ", tool>>

\* a tool_node without the try/except: the loop ends at the first failure
RECURSIVE tool_results_uncaught(_, _, _)
tool_results_uncaught(calls, raises, registry) ==
    IF calls = <<>> THEN <<>>
    ELSE IF lookup(registry, Head(calls).name) = "None" \/ Head(raises) THEN <<>>
    ELSE <<ToolMessage(Observation(lookup(registry, Head(calls).name)), Head(calls).id)>>
         \o tool_results_uncaught(Tail(calls), Tail(raises), registry)

\* the list tool_node returns: one ToolMessage per tool call, in order.
\* raises[i] tells whether the tool invoked for call i raises.
RECURSIVE tool_results(_, _, _)
tool_results(calls, raises, registry) ==
    IF calls = <<>> THEN <<>>
    ELSE LET c == Head(calls)
             tool == lookup(registry, c.name)
         IN <<IF tool = "None" THEN ToolMessage(NotFound(c.name), c.id)
              ELSE IF Head(raises) THEN ToolMessage(Failed("ToolException"), c.id)
              ELSE ToolMessage(Observation(tool), c.id)>>
            \o tool_results(Tail(calls), Tail(raises), registry)

\* the tool.invoke calls tool_node makes, in order
RECURSIVE tool_invocations(_, _, _)
tool_invocations(calls, raises, registry) ==
    IF calls = <<>> THEN <<>>
    ELSE LET c == Head(calls)
             tool == lookup(registry, c.name)
         IN (IF tool = "None" THEN <<>>
             ELSE <<[id |-> c.id, tool |-> tool, raised |-> Head(raises)]>>)
            \o tool_invocations(Tail(calls), Tail(raises), registry)

----------------------------------------------------------------------------
(* The chat interface.                                                     *)

\* what the user types
Texts == {"list users", "Quit"}

\* str.lower()
Lower(text) == IF text = "Quit" THEN "quit" ELSE text

ExitWords == {"exit", "quit", "bye", "end chat"}

ChatEnded == <<"Chat ended and history saved. You can close this window.">>

\* the state once the modules are loaded: no command evaluated yet, the
\* agent.py globals as their module sets them, main() not yet run
Init ==
    /\ gate_pc = "idle"
    /\ command = <<>>
    /\ gate_result = NoResult
    /\ ssm_pc = "idle"
    /\ ssm_command = <<>>
    /\ ssm_calls = 0
    /\ sends = 0
    /\ polls = 0
    /\ fetches = 0
    /\ status = ""
    /\ ssm_result = NoResult
    /\ app_pc = "load"
    /\ model_with_tool = 0
    /\ tools_by_name = <<>>
    /\ agent = 0
    /\ thread_id = 0
    /\ chat_history = <<>>
    /\ saved_logs = 0
    /\ checkpoints = <<>>
    /\ pc = "idle"
    /\ run_agent = 0
    /\ run_thread = 0
    /\ run_message = ""
    /\ step = 0
    /\ llm_input = <<>>
    /\ tool_log = <<>>
    /\ outcome = "none"
    /\ reply = <<>>
    /\ llm_calls = 0
    /\ next_id = 1
    /\ turns = 0
    /\ agents_made = 0
    /\ transcript = <<>>


\* main(): create_agent, then the interface is served
main ==
    /\ app_pc = "load"
    /\ LET made == create_agent(agents_made) IN
        /\ model_with_tool' = made.model_with_tool
        /\ tools_by_name' = made.tools_by_name
        /\ agent' = made.agent
        /\ thread_id' = made.thread_id
    /\ agents_made' = agents_made + 1
    /\ checkpoints' = Append(checkpoints, <<>>)
    /\ app_pc' = "serving"
    /\ UNCHANGED <<chat_history, saved_logs, pc, run_agent, run_thread,
                   run_message, step, llm_input, tool_log, outcome, reply,
                   llm_calls, next_id, turns, transcript>>
    /\ UNCHANGED gate_vars

\* new_chat: the Reset button.  It may be pressed while a run is under way.
new_chat ==
    /\ app_pc = "serving"
    /\ agents_made < MaxSessions
    /\ saved_logs' = IF chat_history # <<>> THEN saved_logs + 1 ELSE saved_logs
    /\ LET made == reset_agent(agents_made) IN
        /\ model_with_tool' = made.model_with_tool
        /\ tools_by_name' = made.tools_by_name
        /\ agent' = made.agent
        /\ thread_id' = made.thread_id
    /\ agents_made' = agents_made + 1
    /\ checkpoints' = Append(checkpoints, <<>>)
    /\ chat_history' = <<>>
    /\ transcript' = <<>>
    /\ UNCHANGED <<app_pc, pc, run_agent, run_thread, run_message, step,
                   llm_input, tool_log, outcome, reply, llm_calls, next_id, turns>>
    /\ UNCHANGED gate_vars

\* get_agent_response up to agent.invoke reaching its first node, or, for
\* an exit word, to its return
get_agent_response ==
    /\ app_pc = "serving"
    /\ pc = "idle"
    /\ turns < MaxTurns
    /\ turns' = turns + 1
    /\ \E message \in Texts :
        IF Lower(message) \in ExitWords
        THEN /\ saved_logs' = saved_logs + 1
             /\ reply' = ChatEnded
             /\ outcome' = "ended"
             /\ UNCHANGED <<pc, run_agent, run_thread, run_message, step,
                            llm_calls, tool_log, checkpoints, transcript>>
        ELSE /\ run_agent' = agent
             /\ run_thread' = thread_id
             /\ run_message' = message
             /\ checkpoints' =
                    Checkpoint(checkpoints, agent, thread_id,
                               Append(Conversation(checkpoints, agent, thread_id),
                                      HumanMessage(message)))
             /\ transcript' = Append(transcript, HumanMessage(message))
             /\ step' = 0
             /\ llm_calls' = 0
             /\ tool_log' = <<>>
             /\ outcome' = "running"
             /\ pc' = "llm_call"
             /\ UNCHANGED <<saved_logs, reply>>
    /\ UNCHANGED <<app_pc, model_with_tool, tools_by_name, agent, thread_id,
                   chat_history, llm_input, next_id, agents_made>>
    /\ UNCHANGED gate_vars

\* n tool-call requests with fresh ids from first_id on
ToolCalls(first_id, n) ==
    {[i \in 1..n |-> [name |-> names[i], id |-> first_id + i - 1]] :
        names \in [1..n -> RequestNames]}

\* what the decision-maker may answer: a text, or tool-call requests (as
\* many as the behaviour's budget of requests still allows)
Responses(first_id) ==
    {AIMessage(text, <<>>) : text \in TextReplies}
    \cup UNION {{AIMessage(<<>>, calls) : calls \in ToolCalls(first_id, n)} :
                 n \in 1..(MaxToolCalls + 1 - first_id)}

\* what is on screen follows the run only while the run's session is shown
Shown(messages) ==
    IF run_thread = thread_id /\ run_agent = agent
    THEN transcript \o messages ELSE transcript

\* the llm_call node with the conditional edge that follows it: the model
\* answers with text, or with one or more tool-call requests
llm_call ==
    /\ pc = "llm_call"
    /\ LET messages == Conversation(checkpoints, run_agent, run_thread) IN
        /\ llm_input' = messages
        /\ llm_calls' = llm_calls + 1
        /\ step' = step + 1
        /\ \E response \in Responses(next_id) :
            /\ checkpoints' = Checkpoint(checkpoints, run_agent, run_thread,
                                         Append(messages, response))
            /\ transcript' = Shown(<<response>>)
            /\ next_id' = next_id + Len(response.tool_calls)
            /\ pc' = next_node(step + 1, should_continue(Append(messages, response)))
    /\ UNCHANGED <<app_pc, model_with_tool, tools_by_name, agent, thread_id,
                   chat_history, saved_logs, run_agent, run_thread, run_message,
                   tool_log, outcome, reply, turns, agents_made>>
    /\ UNCHANGED gate_vars

\* the environment node (tool_node) with the edge back to llm_call: every
\* tool call of the last message is looked up and invoked in turn
tool_node ==
    /\ pc = "environment"
    /\ LET messages == Conversation(checkpoints, run_agent, run_thread)
           calls == Last(messages).tool_calls
       IN \E raises \in [1..Len(calls) -> BOOLEAN] :
            /\ \A i \in 1..Len(calls) :
                  lookup(tools_by_name, calls[i].name) = "None" => ~raises[i]
            /\ tool_log' = tool_log \o tool_invocations(calls, raises, tools_by_name)
            /\ checkpoints' =
                   Checkpoint(checkpoints, run_agent, run_thread,
                              messages \o tool_results(calls, raises, tools_by_name))
            /\ transcript' = Shown(tool_results(calls, raises, tools_by_name))
    /\ step' = step + 1
    /\ pc' = next_node(step + 1, "llm_call")
    /\ UNCHANGED <<app_pc, model_with_tool, tools_by_name, agent, thread_id,
                   chat_history, saved_logs, run_agent, run_thread, run_message,
                   llm_input, outcome, reply, llm_calls, next_id, turns,
                   agents_made>>
    /\ UNCHANGED gate_vars

\* the graph reached END: agent.invoke returns the state and
\* get_agent_response takes the last message as the reply
agent_returns ==
    /\ pc = "END"
    /\ LET output == Conversation(checkpoints, run_agent, run_thread) IN
        /\ reply' = Last(output).content
        /\ chat_history' = Append(chat_history,
                                  [message |-> run_message,
                                   reply |-> Last(output).content])
    /\ outcome' = "replied"
    /\ pc' = "idle"
    /\ UNCHANGED <<app_pc, model_with_tool, tools_by_name, agent, thread_id,
                   saved_logs, checkpoints, run_agent, run_thread, run_message,
                   step, llm_input, tool_log, llm_calls, next_id, turns,
                   agents_made, transcript>>
    /\ UNCHANGED gate_vars

\* the graph ran out of steps: agent.invoke raises GraphRecursionError,
\* which get_agent_response does not catch
agent_raises ==
    /\ pc = "out_of_steps"
    /\ outcome' = "error"
    /\ pc' = "idle"
    /\ UNCHANGED <<app_pc, model_with_tool, tools_by_name, agent, thread_id,
                   chat_history, saved_logs, checkpoints, run_agent, run_thread,
                   run_message, step, llm_input, tool_log, reply, llm_calls,
                   next_id, turns, agents_made, transcript>>
    /\ UNCHANGED gate_vars

AgentNext ==
    \/ main
    \/ new_chat
    \/ get_agent_response
    \/ llm_call
    \/ tool_node
    \/ agent_returns
    \/ agent_raises

SpecAgent == Init /\ [][AgentNext]_vars

SpecGate == Init /\ [][GateNext]_vars

----------------------------------------------------------------------------
(* Properties of the safety gate and the remote executor (SpecGate).       *)

\* `word` stands in s as a whole word: a maximal run of word characters
HasWholeWord(s, word) ==
    \E i \in 1..(Len(s) - Len(word) + 1) :
        /\ \A k \in 1..Len(word) : s[i + k - 1] = word[k]
        /\ (i = 1 \/ ~IsWordChar(s[i - 1]))
        /\ (i + Len(word) - 1 = Len(s) \/ ~IsWordChar(s[i + Len(word)]))

IsUnsafe(s) ==
    HasWholeWord(s, Wget) \/ HasWholeWord(s, Curl) \/ HasWholeWord(s, Unset)

\* the pattern a refusal has to name: wget before curl before unset
FirstListed(s) ==
    IF HasWholeWord(s, Wget) THEN "\\bwget\\b"
    ELSE IF HasWholeWord(s, Curl) THEN "\\bcurl\\b"
    ELSE "\\bunset\\b"

\* C1: a command holding wget, curl or unset as a whole word is refused:
\* the result is the refusal naming the first pattern of the list (wget,
\* curl, unset) that matches, and execute_command is not invoked for the
\* call: nothing is sent, polled or fetched.
C1_UnsafeRefused ==
    (gate_pc # "idle" /\ IsUnsafe(command)) =>
        /\ gate_pc = "returned"
        /\ gate_result.error = "Command blocked: Unsafe pattern detected. Modify your command."
        /\ gate_result.detail = FirstListed(command)
        /\ ssm_calls = 0
        /\ ssm_pc = "idle"
        /\ sends = 0 /\ polls = 0 /\ fetches = 0

\* "curl wget": curl comes first in the command, wget first in the list
C1_Witness ==
    /\ gate_pc = "returned"
    /\ command = Curl \o <<" ">> \o Wget
    /\ gate_result = Blocked(unsafe_patterns[1])
    /\ ssm_calls = 0

\* C2: a command holding none of the three words as a whole word is
\* forwarded: execute_command is invoked once, with that command, the
\* command is sent at most once, and what evaluate_and_execute returns is
\* what execute_command returned, an error or a timeout included.
C2_SafeForwardedOnce ==
    (gate_pc # "idle" /\ ~IsUnsafe(command)) =>
        /\ ssm_calls = 1
        /\ ssm_command = command
        /\ sends <= 1
        /\ gate_pc = "returned" =>
              /\ gate_result = ssm_result
              /\ \/ ssm_result = TimedOut
                 \/ ssm_result \in {SSMError(e) : e \in Exceptions}
                 \/ ssm_result \in {Output(s, o) : s \in TerminalStatuses, o \in Outputs}

\* "wget_" is no whole-word match; its timeout comes back as it is
C2_Witness ==
    /\ gate_pc = "returned"
    /\ command = Wget \o <<"_">>
    /\ ssm_calls = 1
    /\ gate_result = TimedOut

\* C7: the loop polls at most max_attempts times; when max_attempts polls
\* have all reported a status and the last is not terminal, execute_command
\* has returned the timeout result, having sent the command once and
\* fetched no output; a timeout is returned in no other case.
C7_PollingBounded ==
    /\ polls <= max_attempts
    /\ ssm_pc = "poll" => polls < max_attempts
    /\ (polls = max_attempts /\ status \notin TerminalStatuses
          /\ ssm_result.error # "SSM Execution Error") =>
            /\ ssm_pc \in {"returned", "idle"}
            /\ ssm_result = TimedOut
    /\ ssm_result = TimedOut =>
            /\ polls = max_attempts
            /\ sends = 1
            /\ fetches = 0
            /\ status \in PendingStatuses

C7_Witness ==
    /\ ssm_pc = "returned"
    /\ ssm_result = TimedOut
    /\ polls = max_attempts
    /\ fetches = 0

\* how far execute_command has got is settled by what it has done so far
C11_Settled ==
    /\ sends <= 1
    /\ ssm_pc \in {"poll", "fetch"} => sends = 1
    /\ ssm_pc = "fetch" =>
        /\ status \in TerminalStatuses
        /\ polls \in 1..max_attempts
        /\ fetches = 0
    /\ (ssm_pc = "returned" /\ status \in TerminalStatuses) =>
        /\ sends = 1
        /\ polls \in 1..max_attempts
        /\ fetches = 1
        /\ \/ ssm_result \in {Output(status, o) : o \in Outputs}
           \/ ssm_result \in {SSMError(e) : e \in Exceptions}
    /\ ssm_pc = "returned" =>
        \/ ssm_result = TimedOut
        \/ ssm_result \in {SSMError(e) : e \in Exceptions}
        \/ ssm_result \in {Output(s, o) : s \in TerminalStatuses, o \in Outputs}

\* C11: execute_command sends the command once.  The poll that first
\* reports a terminal status, the last of the max_attempts polls included,
\* is the last poll: the call goes on to fetch the invocation output and
\* returns it, not a timeout.  Every step of sending, polling and fetching
\* ends in the next position or in a returned result: an exception becomes
\* the error result and the call still returns.
C11_TerminalPollFetches ==
    [][ /\ C11_Settled'
        /\ (gate_pc = "executing" /\ status \in TerminalStatuses) =>
            /\ polls' = polls
            /\ sends' = sends
            /\ ssm_pc = "fetch" =>
                /\ ssm_pc' = "returned"
                /\ fetches' = 1
                /\ ssm_result' # TimedOut
        /\ (ssm_pc = "poll" /\ polls' = polls + 1 /\ status' \in TerminalStatuses) =>
            ssm_pc' \in {"fetch", "returned"}
        /\ (ssm_pc \in {"send", "poll", "fetch"} /\ ssm_pc' # ssm_pc) =>
            /\ ssm_pc' \in {"poll", "fetch", "returned"}
            /\ ssm_pc' = "returned" => ssm_result' # NoResult
            /\ gate_pc' = "executing"
      ]_vars

\* the command finished on the thirtieth poll and its output came back
C11_Witness ==
    /\ gate_pc = "returned"
    /\ sends = 1
    /\ polls = max_attempts
    /\ status = "Success"
    /\ fetches = 1
    /\ gate_result = Output("Success", "uid=0(root)")

----------------------------------------------------------------------------
(* Properties of the decision loop and the chat interface (SpecAgent).     *)

\* the conversation of the run in progress (of the last run, once it ended)
Conv == Conversation(checkpoints, run_agent, run_thread)

\* tool results in `messages` that answer the tool call `id`
ResultsFor(messages, id) ==
    {m \in 1..Len(messages) :
        messages[m].role = "tool" /\ messages[m].tool_call_id = id}

\* C3: in the messages handed to the decision-maker, every tool-call
\* request of every assistant message has exactly one tool result with its
\* call id.
C3_EveryRequestAnswered ==
    \A k \in 1..Len(llm_input) :
        \A c \in 1..Len(llm_input[k].tool_calls) :
            Cardinality(ResultsFor(llm_input, llm_input[k].tool_calls[c].id)) = 1

\* C4: a response without tool-call requests takes the run from llm_call to
\* END and invokes no tool; from END the run can only return to the caller:
\* the decision-maker is not invoked again, no tool runs, the conversation
\* stays as it is, and the reply handed back is that response's content.
C4_TextResponseEndsRun ==
    [][ /\ (llm_calls' = llm_calls + 1
            /\ Last(Conversation(checkpoints', run_agent', run_thread')).tool_calls = <<>>)
           => (pc' = "END" /\ tool_log' = tool_log)
        /\ pc = "END" =>
            /\ pc' \in {"END", "idle"}
            /\ llm_calls' = llm_calls
            /\ tool_log' = tool_log
            /\ Conversation(checkpoints', run_agent', run_thread') = Conv
            /\ pc' = "idle" =>
                /\ outcome' = "replied"
                /\ Last(Conv).role = "ai"
                /\ Last(Conv).tool_calls = <<>>
                /\ reply' = Last(Conv).content
      ]_vars

\* a run that went through a tool round and then got a text response
C4_Witness ==
    /\ pc = "idle"
    /\ outcome = "replied"
    /\ reply = <<"Done.">>
    /\ llm_calls = 2
    /\ tool_log # <<>>

\* C5: in a tool_node step, a tool invocation that raises leaves exactly
\* one result for its call id, the error text; the step still appends one
\* result per tool call of the round, the calls after the failing one are
\* answered (and invoked, when registered), the run goes on to llm_call and
\* nothing reaches the caller.
C5_RaisingToolAbsorbed ==
    [][ (pc = "environment" /\ step' = step + 1) =>
        LET calls == Last(Conv).tool_calls
            after == Conversation(checkpoints', run_agent', run_thread')
            new == SubSeq(after, Len(Conv) + 1, Len(after))
            invoked == SubSeq(tool_log', Len(tool_log) + 1, Len(tool_log'))
        IN \A e \in 1..Len(invoked) : invoked[e].raised =>
            /\ Len(new) = Len(calls)
            /\ \E i \in 1..Len(calls) :
                /\ calls[i].id = invoked[e].id
                /\ new[i] = ToolMessage(Failed("ToolException"), calls[i].id)
                /\ Cardinality(ResultsFor(after, calls[i].id)) = 1
                /\ \A j \in (i + 1)..Len(calls) :
                    /\ new[j].role = "tool"
                    /\ new[j].tool_call_id = calls[j].id
                    /\ calls[j].name \in DOMAIN tools_by_name =>
                          \E f \in 1..Len(invoked) : invoked[f].id = calls[j].id
            /\ pc' = "llm_call"
            /\ outcome' = "running"
      ]_vars

\* a round whose first tool raised and whose second tool succeeded
C5_Witness ==
    /\ pc = "llm_call"
    /\ step = 2
    /\ Len(tool_log) = 2
    /\ tool_log[1].raised
    /\ ~tool_log[2].raised
    /\ Last(Conv) = ToolMessage(Observation("evaluator"), tool_log[2].id)

\* C6: in a tool_node step, a request for a name the registry does not hold
\* invokes no tool, leaves exactly one result for its call id, the "not
\* found" error text, and the run goes on to llm_call.
C6_UnknownToolAnswered ==
    [][ (pc = "environment" /\ step' = step + 1) =>
        LET calls == Last(Conv).tool_calls
            after == Conversation(checkpoints', run_agent', run_thread')
            new == SubSeq(after, Len(Conv) + 1, Len(after))
        IN \A i \in 1..Len(calls) : calls[i].name \notin DOMAIN tools_by_name =>
            /\ Len(new) = Len(calls)
            /\ new[i] = ToolMessage(NotFound(calls[i].name), calls[i].id)
            /\ Cardinality(ResultsFor(after, calls[i].id)) = 1
            /\ \A e \in 1..Len(tool_log') : tool_log'[e].id # calls[i].id
            /\ pc' = "llm_call"
      ]_vars

\* a round that asked for "X" alone: one synthetic result, nothing invoked
C6_Witness ==
    /\ pc = "llm_call"
    /\ step = 2
    /\ tool_log = <<>>
    /\ Len(Conv) = 3
    /\ Conv[2].tool_calls = <<[name |-> "X", id |-> Conv[3].tool_call_id]>>
    /\ Conv[3] = ToolMessage(NotFound("X"), Conv[3].tool_call_id)

\* C8: no run stops anywhere but at END, and no user turn ends with a
\* failure raised to the caller.
C8_EveryRunReplies ==
    /\ pc # "out_of_steps"
    /\ outcome # "error"

\* C9 as claimed: once main() has run, no step writes tools_by_name or
\* model_with_tool.
C9_GlobalsNeverWritten ==
    [][ app_pc = "serving" =>
            /\ tools_by_name' = tools_by_name
            /\ model_with_tool' = model_with_tool
      ]_vars

\* C9: once main() has run, the registry maps the same names to the same
\* tools after every step; user turns and decision-loop steps leave both
\* globals alone; only a reset, which runs create_agent again, rebinds them,
\* model_with_tool to a newly bound model.
C9_RegistryContentsFixed ==
    [][ app_pc = "serving" =>
            /\ tools_by_name' = tools_by_name
            /\ tools_by_name = Registry
            /\ model_with_tool' # model_with_tool =>
                /\ agents_made' = agents_made + 1
                /\ model_with_tool' = agents_made'
                /\ UNCHANGED <<pc, step, llm_calls, tool_log, turns>>
      ]_vars

\* after a reset: the second bound model, the same registry
C9_Witness ==
    /\ app_pc = "serving"
    /\ agents_made = 2
    /\ model_with_tool = 2
    /\ tools_by_name = Registry
    /\ turns > 0

\* C10: the first decision of a turn receives what has been said in the
\* session so far, in order, ending with the turn's user message, and
\* nothing else: after a reset that is the user message alone.  The session
\* identifier in use keys no conversation of an earlier agent.
C10_SessionScoped ==
    /\ (pc # "idle" /\ step = 1 /\ run_agent = agent /\ run_thread = thread_id) =>
        /\ transcript = Append(llm_input, Last(transcript))
        /\ Last(llm_input) = HumanMessage(run_message)
    /\ \A a \in DOMAIN checkpoints :
        a # agent => thread_id \notin DOMAIN checkpoints[a]

\* a turn after a reset: the earlier session holds a conversation, and the
\* first decision of the new session sees the new user message alone
C10_Witness ==
    /\ pc # "idle"
    /\ step = 1
    /\ agent = 2 /\ run_agent = 2 /\ run_thread = thread_id
    /\ Len(Conversation(checkpoints, 1, 1)) >= 2
    /\ llm_input = <<HumanMessage(run_message)>>

\* a second turn of one session: the first decision sees the first turn
C10_SecondTurnReached ==
    /\ pc # "idle"
    /\ step = 1
    /\ agent = 1 /\ run_agent = 1
    /\ Len(llm_input) >= 3
    /\ llm_input[1].role = "human"

====
